---- MODULE Spec2Model ----
(***************************************************************************)
(* Model of the nl2sql web client: the ChatView conversation session       *)
(* (handlePlan / handleExecute and the three text inputs) and the RunLogs  *)
(* log view (one EventSource per effect run, a line buffer).               *)
(*                                                                         *)
(* JavaScript is single threaded: a handler runs from its entry to its     *)
(* first await as one step, and the continuation after the last await (the *)
(* rest of try, catch and finally) as another step.                        *)
(***************************************************************************)
EXTENDS Integers, Sequences, FiniteSets, TLC

VARIABLES
    \* ChatView component state (useState, ChatView.tsx 24-33)
    deployment, connector, question, messages, runId, candidates,
    clarifications, result, error, isLoading,
    \* requests issued by fetch and not yet settled, with the values their
    \* handler closed over
    inflight,
    \* bookkeeping: number of fetch calls issued, the settled calls in the
    \* order they settled, the request that produced `result`, the run whose
    \* plan response produced `candidates` and `clarifications`, the connector
    \* of the plan request that produced `runId`, and the backend's count of
    \* runs created
    netCalls, settled, resultReq, planRun, runConnector, nextRun,
    \* RunLogs component: mounted flag, route parameter, line buffer, the
    \* EventSource objects created so far, the one owned by the live effect
    \* and the number of line events delivered so far
    logMounted, routeId, lines, sources, effectSource, delivered

bookVars ==
    <<netCalls, settled, resultReq, planRun, runConnector, nextRun>>
chatVars == <<deployment, connector, question, messages, runId, candidates,
              clarifications, result, error, isLoading, inflight, bookVars>>
logVars == <<logMounted, routeId, lines, sources, effectSource, delivered>>
vars == <<chatVars, logVars>>

-----------------------------------------------------------------------------
(* Bounds of the model *)

\* fetch calls issued in one behaviour
MaxCalls == 3
\* line events delivered in one behaviour of the log view
MaxEvents == 3
\* EventSource objects created in one behaviour of the log view
MaxOpens == 3
\* line events delivered in one behaviour of the single-channel log view
MaxBufferEvents == 250

-----------------------------------------------------------------------------
(* Values *)

\* null of a string-typed state (runId, error)
Null == "<null>"
\* null of `result`
NoResult == [isNull |-> TRUE]

Questions == {"", "q1"}
\* texts of the connector input: empty, and one identifier
Connectors == {"", "k1"}
Deployments == {"dev", "prod"}

\* run ids the backend hands out, in order of creation
RunName == <<"r1", "r2", "r3", "r4", "r5", "r6">>

Candidate(s) ==
    [sql |-> s, rationale |-> "why", explain_summary |-> "scan", est_cost |-> 1]
AllCandidates == {Candidate("s1"), Candidate("s2")}
CandidateLists ==
    {<<>>, <<Candidate("s1")>>, <<Candidate("s1"), Candidate("s2")>>}
ClarificationLists == {<<>>, <<"which table?">>}

Row == [n |-> 1]
RowLists == {<<>>, <<Row, Row>>}
ResultRefs == {"res-1"}

StatusTexts == {"", "Internal Server Error"}
Details == {"connector unreachable"}

\* messages of errors thrown by the platform
FetchFailedMessage == "Failed to fetch"
NullDerefMessage == "Cannot read properties of null (reading 'detail')"
JsonParseMessage == "Unexpected token < in JSON"

PlanFallback == "Planning failed"
ExecuteFallback == "Execution failed"
PlanValidationMessage == "Connector and question are required."
ExecuteValidationMessage == "No plan is associated with this conversation."

-----------------------------------------------------------------------------
(* The backend, as the HTTP contract describes it *)

\* bodies of a non-2xx response: not JSON, the JSON value null, an object
\* without detail (or detail: null), an object with a detail string
ErrorBodies ==
    {[kind |-> "unparsable", hasDetail |-> FALSE, detail |-> ""],
     [kind |-> "null", hasDetail |-> FALSE, detail |-> ""],
     [kind |-> "object", hasDetail |-> FALSE, detail |-> ""]}
    \cup {[kind |-> "object", hasDetail |-> TRUE, detail |-> d] : d \in Details}

ErrorResponses ==
    {[ok |-> FALSE, statusText |-> st, body |-> b] :
        st \in StatusTexts, b \in ErrorBodies}

\* a field of a JSON body that may be absent
Optional(S) == {[has |-> FALSE, val |-> <<>>]} \cup {[has |-> TRUE, val |-> v] : v \in S}

\* 2xx body of POST /inference/plan; a run is created by every successful plan
PlanData(n) ==
    {[run_id |-> RunName[n],
      hasCandidates |-> cs.has, candidates |-> cs.val,
      hasClarifications |-> qs.has, clarifications |-> qs.val] :
        cs \in Optional(CandidateLists), qs \in Optional(ClarificationLists)}

\* 2xx body of POST /inference/execute: row_count is the number of rows
ExecuteData ==
    {[rows |-> rs, row_count |-> Len(rs), result_ref |-> ref] :
        rs \in RowLists, ref \in ResultRefs}

\* what `await fetch(...)` and the reads of the body can come to
NetworkError == [kind |-> "reject"]
BadJson == [kind |-> "badjson"]
HttpError(resp) == [kind |-> "http", resp |-> resp]
Success(data) == [kind |-> "ok", data |-> data]

PlanOutcomes(n) ==
    {NetworkError, BadJson}
    \cup {HttpError(r) : r \in ErrorResponses}
    \cup {Success(d) : d \in PlanData(n)}

ExecuteOutcomes ==
    {NetworkError, BadJson}
    \cup {HttpError(r) : r \in ErrorResponses}
    \cup {Success(d) : d \in ExecuteData}

-----------------------------------------------------------------------------
(* Helpers of the handlers *)

\* mutant: a body that is not JSON reads as an empty object
JsonOrEmpty(resp) ==
    IF resp.body.kind = "unparsable"
    THEN [kind |-> "object", hasDetail |-> FALSE, detail |-> ""]
    ELSE resp.body

\* response.json().catch(() => ({ detail: response.statusText }))
JsonOrStatusText(resp) ==
    IF resp.body.kind = "unparsable"
    THEN [kind |-> "object", hasDetail |-> TRUE, detail |-> resp.statusText]
    ELSE resp.body

\* the error the handler throws, or meets, before its catch:
\* new Error(detail.detail ?? fallback), or the platform's error
Thrown(o, fallback) ==
    [isError |-> TRUE,
     message |->
        CASE o.kind = "reject" -> FetchFailedMessage
          [] o.kind = "badjson" -> JsonParseMessage
          [] o.kind = "http" ->
                LET detail == JsonOrStatusText(o.resp)
                IN  IF detail.kind = "null" THEN NullDerefMessage
                    ELSE IF detail.hasDetail THEN detail.detail
                    ELSE fallback]

\* err instanceof Error ? err.message : "Unknown error"
CatchText(err) == IF err.isError THEN err.message ELSE "Unknown error"

\* template strings of the two assistant messages, as their segments
UserMessage(q) == [role |-> "user", content |-> <<q>>]
ProposedMessage(n) ==
    [role |-> "assistant",
     content |-> <<"Proposed ", n, " candidate SQL statements.">>]
ExecutedMessage(n, ref) ==
    [role |-> "assistant",
     content |-> <<"Executed plan with ", n, " row(s). Result ref ", ref>>]

\* data.candidates ?? [] and data.clarifications ?? []
CandidatesOf(data) == IF data.hasCandidates THEN data.candidates ELSE <<>>
ClarificationsOf(data) ==
    IF data.hasClarifications THEN data.clarifications ELSE <<>>

\* data.candidates?.length ?? 0
CandidateCount(data) ==
    IF data.hasCandidates THEN Len(data.candidates) ELSE 0

\* the session as it was when a handler was entered
Snapshot ==
    [runId |-> runId, candidates |-> candidates,
     clarifications |-> clarifications, messages |-> messages,
     result |-> result]

-----------------------------------------------------------------------------
(* ChatView: inputs *)

\* mutant: editing the question dismisses the error
SetQuestionClearsError(q) ==
    /\ question' = q
    /\ error' = Null
    /\ UNCHANGED <<deployment, connector, messages, runId, candidates,
                   clarifications, result, isLoading, inflight>>
    /\ UNCHANGED bookVars
    /\ UNCHANGED logVars

\* onChange of the question input: setQuestion(e.target.value)
SetQuestion(q) ==
    /\ question' = q
    /\ UNCHANGED <<deployment, connector, messages, runId, candidates,
                   clarifications, result, error, isLoading, inflight>>
    /\ UNCHANGED bookVars
    /\ UNCHANGED logVars

SetDeployment(d) ==
    /\ deployment' = d
    /\ UNCHANGED <<connector, question, messages, runId, candidates,
                   clarifications, result, error, isLoading, inflight>>
    /\ UNCHANGED bookVars
    /\ UNCHANGED logVars

SetConnector(k) ==
    /\ connector' = k
    /\ UNCHANGED <<deployment, question, messages, runId, candidates,
                   clarifications, result, error, isLoading, inflight>>
    /\ UNCHANGED bookVars
    /\ UNCHANGED logVars

-----------------------------------------------------------------------------
(* ChatView: handlePlan *)

\* mutant: the connector is not checked
PlanGuardQuestionOnly == question = ""

\* if (!question || !connector)
PlanGuardFails == question = "" \/ connector = ""

\* mutant: the previous result is kept
PlanClearedKeepsResult ==
    [candidates |-> <<>>, clarifications |-> <<>>, result |-> result]

\* setCandidates([]); setClarifications([]); setResult(null)
PlanCleared ==
    [candidates |-> <<>>, clarifications |-> <<>>, result |-> NoResult]

\* mutant: the user message takes the text now in the input
PlanMessagesLiveInput(c, data) ==
    <<UserMessage(question), ProposedMessage(CandidateCount(data))>>

\* the two messages a successful plan appends, for call c and its 2xx body
PlanMessages(c, data) ==
    <<UserMessage(c.body.question), ProposedMessage(CandidateCount(data))>>

\* entry to the first await
HandlePlan ==
    IF PlanGuardFails
    THEN /\ error' = PlanValidationMessage
         /\ UNCHANGED <<deployment, connector, question, messages, runId,
                        candidates, clarifications, result, isLoading,
                        inflight>>
         /\ UNCHANGED bookVars
         /\ UNCHANGED logVars
    ELSE /\ isLoading' = TRUE
         /\ error' = Null
         /\ candidates' = PlanCleared.candidates
         /\ clarifications' = PlanCleared.clarifications
         /\ result' = PlanCleared.result
         /\ resultReq' = IF result' = NoResult THEN NoResult ELSE resultReq
         /\ planRun' = Null
         /\ netCalls' = netCalls + 1
         /\ inflight' = inflight \cup
                {[id |-> netCalls + 1, op |-> "plan",
                  body |-> [question |-> question, deployment |-> deployment,
                            connector |-> connector],
                  pre |-> Snapshot]}
         /\ UNCHANGED <<deployment, connector, question, messages, runId,
                        settled, runConnector, nextRun>>
         /\ UNCHANGED logVars

\* mutant: the catch block also drops the run
PlanSettleDropsRun(c, o) ==
    /\ c \in inflight
    /\ c.op = "plan"
    /\ inflight' = inflight \ {c}
    /\ settled' = Append(settled, [id |-> c.id, op |-> "plan", ok |-> o.kind = "ok"])
    /\ isLoading' = FALSE
    /\ IF o.kind = "ok"
       THEN /\ runId' = o.data.run_id
            /\ candidates' = CandidatesOf(o.data)
            /\ clarifications' = ClarificationsOf(o.data)
            /\ planRun' = o.data.run_id
            /\ runConnector' = c.body.connector
            /\ messages' = messages \o PlanMessages(c, o.data)
            /\ question' = ""
            /\ nextRun' = nextRun + 1
            /\ UNCHANGED error
       ELSE /\ error' = CatchText(Thrown(o, PlanFallback))
            /\ runId' = Null
            /\ UNCHANGED <<candidates, clarifications, messages,
                           question, nextRun, planRun, runConnector>>
    /\ UNCHANGED <<deployment, connector, result, netCalls, resultReq>>
    /\ UNCHANGED logVars

\* the continuation: the rest of try, catch, finally
PlanSettle(c, o) ==
    /\ c \in inflight
    /\ c.op = "plan"
    /\ inflight' = inflight \ {c}
    /\ settled' = Append(settled, [id |-> c.id, op |-> "plan", ok |-> o.kind = "ok"])
    /\ isLoading' = FALSE
    /\ IF o.kind = "ok"
       THEN /\ runId' = o.data.run_id
            /\ candidates' = CandidatesOf(o.data)
            /\ clarifications' = ClarificationsOf(o.data)
            /\ planRun' = o.data.run_id
            /\ runConnector' = c.body.connector
            /\ messages' = messages \o PlanMessages(c, o.data)
            /\ question' = ""
            /\ nextRun' = nextRun + 1
            /\ UNCHANGED error
       ELSE /\ error' = CatchText(Thrown(o, PlanFallback))
            /\ UNCHANGED <<runId, candidates, clarifications, messages,
                           question, nextRun, planRun, runConnector>>
    /\ UNCHANGED <<deployment, connector, result, netCalls, resultReq>>
    /\ UNCHANGED logVars

-----------------------------------------------------------------------------
(* ChatView: handleExecute *)

\* mutant: only the empty string is refused
ExecuteGuardEmptyOnly == runId = ""

\* if (!runId)
ExecuteGuardFails == runId = Null \/ runId = ""

\* mutant: only the first row is kept
StoredFirstRow(data) ==
    [data EXCEPT !.rows = IF @ = <<>> THEN <<>> ELSE <<@[1]>>]

\* setResult(data)
StoredResult(data) == data

\* mutant: the previous result is dropped when an execute starts
HandleExecuteClearsResult(candidate) ==
    IF ExecuteGuardFails
    THEN /\ error' = ExecuteValidationMessage
         /\ UNCHANGED <<deployment, connector, question, messages, runId,
                        candidates, clarifications, result, isLoading,
                        inflight>>
         /\ UNCHANGED bookVars
         /\ UNCHANGED logVars
    ELSE /\ isLoading' = TRUE
         /\ error' = Null
         /\ result' = NoResult
         /\ resultReq' = NoResult
         /\ netCalls' = netCalls + 1
         /\ inflight' = inflight \cup
                {[id |-> netCalls + 1, op |-> "execute",
                  body |-> [run_id |-> runId, connector |-> connector,
                            approved_sql |-> candidate.sql, limit |-> 100],
                  pre |-> Snapshot]}
         /\ UNCHANGED <<deployment, connector, question, messages, runId,
                        candidates, clarifications, settled,
                        planRun, runConnector, nextRun>>
         /\ UNCHANGED logVars

HandleExecute(candidate) ==
    IF ExecuteGuardFails
    THEN /\ error' = ExecuteValidationMessage
         /\ UNCHANGED <<deployment, connector, question, messages, runId,
                        candidates, clarifications, result, isLoading,
                        inflight>>
         /\ UNCHANGED bookVars
         /\ UNCHANGED logVars
    ELSE /\ isLoading' = TRUE
         /\ error' = Null
         /\ netCalls' = netCalls + 1
         /\ inflight' = inflight \cup
                {[id |-> netCalls + 1, op |-> "execute",
                  body |-> [run_id |-> runId, connector |-> connector,
                            approved_sql |-> candidate.sql, limit |-> 100],
                  pre |-> Snapshot]}
         /\ UNCHANGED <<deployment, connector, question, messages, runId,
                        candidates, clarifications, result, settled,
                        resultReq, planRun, runConnector, nextRun>>
         /\ UNCHANGED logVars

\* mutant: an execute that fails never reaches setIsLoading(false)
ExecuteSettleNoFinally(c, o) ==
    /\ c \in inflight
    /\ c.op = "execute"
    /\ inflight' = inflight \ {c}
    /\ settled' = Append(settled, [id |-> c.id, op |-> "execute", ok |-> o.kind = "ok"])
    /\ IF o.kind = "ok"
       THEN /\ result' = StoredResult(o.data)
            /\ resultReq' = c.body
            /\ messages' = messages \o
                    <<ExecutedMessage(o.data.row_count, o.data.result_ref)>>
            /\ isLoading' = FALSE
            /\ UNCHANGED error
       ELSE /\ error' = CatchText(Thrown(o, ExecuteFallback))
            /\ UNCHANGED <<result, resultReq, messages, isLoading>>
    /\ UNCHANGED <<deployment, connector, question, runId, candidates,
                   clarifications, netCalls, planRun, runConnector,
                   nextRun>>
    /\ UNCHANGED logVars

\* the continuation: the rest of try, catch, finally
ExecuteSettle(c, o) ==
    /\ c \in inflight
    /\ c.op = "execute"
    /\ inflight' = inflight \ {c}
    /\ settled' = Append(settled, [id |-> c.id, op |-> "execute", ok |-> o.kind = "ok"])
    /\ isLoading' = FALSE
    /\ IF o.kind = "ok"
       THEN /\ result' = StoredResult(o.data)
            /\ resultReq' = c.body
            /\ messages' = messages \o
                    <<ExecutedMessage(o.data.row_count, o.data.result_ref)>>
            /\ UNCHANGED error
       ELSE /\ error' = CatchText(Thrown(o, ExecuteFallback))
            /\ UNCHANGED <<result, resultReq, messages>>
    /\ UNCHANGED <<deployment, connector, question, runId, candidates,
                   clarifications, netCalls, planRun, runConnector,
                   nextRun>>
    /\ UNCHANGED logVars

-----------------------------------------------------------------------------
(* ChatView: what the rendered controls allow *)

\* mutant: the submit button is never disabled
SubmitAlwaysEnabled == TRUE

\* <button type="submit" disabled={isLoading}>
SubmitEnabled == ~isLoading

\* mutant: a candidate that is not rendered can be approved
ApproveAnyCandidate(candidate) == ~isLoading

\* one Approve button per rendered candidate, disabled={isLoading}
ApproveEnabled(candidate) ==
    /\ ~isLoading
    /\ \E i \in 1..Len(candidates) : candidates[i] = candidate

-----------------------------------------------------------------------------
(* RunLogs *)

\* lines kept from the previous buffer when a line arrives: prev.slice(-200)
LineLimit == 200

\* s.slice(-n)
SliceLast(s, n) ==
    IF Len(s) <= n THEN s ELSE SubSeq(s, Len(s) - n + 1, Len(s))

\* setLines((prev) => [...prev.slice(-200), event.data])
AppendLine(prev, data) == Append(SliceLast(prev, LineLimit), data)

\* mutant: closing a closed source fails instead of doing nothing
CloseOnce(src) ==
    IF src.readyState = "closed"
    THEN [src EXCEPT !.readyState = "failed"]
    ELSE [src EXCEPT !.readyState = "closed"]

\* eventSource.close()
Close(src) == [src EXCEPT !.readyState = "closed"]

\* mutant: the effect returns no cleanup
CleanupNothing(srcs, i) == srcs

\* the cleanup the effect returned: () => eventSource.close()
Cleanup(srcs, i) ==
    IF i = 0 THEN srcs ELSE [srcs EXCEPT ![i] = Close(srcs[i])]

\* the effect body for route parameter id, run on the sources srcs
EffectOpens(id) == id # Null /\ id # ""
EffectSources(srcs, id) ==
    IF EffectOpens(id)
    THEN Append(srcs, [run |-> id, readyState |-> "connecting", sent |-> 0,
                       errored |-> FALSE])
    ELSE srcs
EffectHandle(srcs, id) ==
    IF EffectOpens(id) THEN Len(srcs) + 1 ELSE 0

\* the route /runs/:id is entered: RunLogs mounts and its effect runs
MountLogs(id) ==
    /\ ~logMounted
    /\ logMounted' = TRUE
    /\ routeId' = id
    /\ lines' = <<>>
    /\ sources' = EffectSources(sources, id)
    /\ effectSource' = EffectHandle(sources, id)
    /\ UNCHANGED delivered
    /\ UNCHANGED chatVars

\* the route parameter changes under the mounted view: the dependency [id]
\* changed, so the old effect is cleaned up and the effect runs again
NavigateLogs(id) ==
    /\ logMounted
    /\ id # routeId
    /\ routeId' = id
    /\ sources' = EffectSources(Cleanup(sources, effectSource), id)
    /\ effectSource' = EffectHandle(sources, id)
    /\ UNCHANGED <<logMounted, lines, delivered>>
    /\ UNCHANGED chatVars

\* the connection of source i is established
SourceOpens(i) ==
    /\ i \in 1..Len(sources)
    /\ sources[i].readyState = "connecting"
    /\ sources' = [sources EXCEPT ![i].readyState = "open"]
    /\ UNCHANGED <<logMounted, routeId, lines, effectSource, delivered>>
    /\ UNCHANGED chatVars

\* eventSource.onmessage: one line event on source i
OnMessage(i) ==
    /\ i \in 1..Len(sources)
    /\ sources[i].readyState = "open"
    /\ sources' = [sources EXCEPT ![i].sent = @ + 1]
    /\ delivered' = delivered + 1
    /\ lines' = IF logMounted
                THEN AppendLine(lines, [run |-> sources[i].run,
                                        n |-> sources[i].sent + 1])
                ELSE lines
    /\ UNCHANGED <<logMounted, routeId, effectSource>>
    /\ UNCHANGED chatVars

\* mutant: no onerror handler, the browser reconnects
OnErrorReconnects(i) ==
    /\ i \in 1..Len(sources)
    /\ sources[i].readyState # "closed"
    /\ sources' = [sources EXCEPT ![i].readyState = "connecting",
                                  ![i].errored = TRUE]
    /\ UNCHANGED <<logMounted, routeId, lines, effectSource, delivered>>
    /\ UNCHANGED chatVars

\* eventSource.onerror: a channel-level error on source i
OnError(i) ==
    /\ i \in 1..Len(sources)
    /\ sources[i].readyState # "closed"
    /\ sources' = [sources EXCEPT ![i] = [Close(sources[i]) EXCEPT !.errored = TRUE]]
    /\ UNCHANGED <<logMounted, routeId, lines, effectSource, delivered>>
    /\ UNCHANGED chatVars

\* the route is left: the effect is cleaned up and the component state dropped
UnmountLogs ==
    /\ logMounted
    /\ logMounted' = FALSE
    /\ routeId' = Null
    /\ lines' = <<>>
    /\ sources' = Cleanup(sources, effectSource)
    /\ effectSource' = 0
    /\ UNCHANGED delivered
    /\ UNCHANGED chatVars

-----------------------------------------------------------------------------
InitChat ==
    /\ deployment = "dev"
    /\ connector = ""
    /\ question = ""
    /\ messages = <<>>
    /\ runId = Null
    /\ candidates = <<>>
    /\ clarifications = <<>>
    /\ result = NoResult
    /\ error = Null
    /\ isLoading = FALSE
    /\ inflight = {}
    /\ netCalls = 0
    /\ settled = <<>>
    /\ resultReq = NoResult
    /\ planRun = Null
    /\ runConnector = Null
    /\ nextRun = 1

InitLogs ==
    /\ logMounted = FALSE
    /\ routeId = Null
    /\ lines = <<>>
    /\ sources = <<>>
    /\ effectSource = 0
    /\ delivered = 0

Init == InitChat /\ InitLogs

\* the session as the rendered page drives it
Next ==
    \/ \E q \in Questions : SetQuestion(q)
    \/ \E d \in Deployments : SetDeployment(d)
    \/ \E k \in Connectors : SetConnector(k)
    \/ SubmitEnabled /\ HandlePlan /\ netCalls' <= MaxCalls
    \/ \E cand \in AllCandidates :
            ApproveEnabled(cand) /\ HandleExecute(cand) /\ netCalls' <= MaxCalls
    \/ \E c \in inflight, o \in PlanOutcomes(nextRun) : PlanSettle(c, o)
    \/ \E c \in inflight, o \in ExecuteOutcomes : ExecuteSettle(c, o)

Spec == Init /\ [][Next]_vars

\* a response, or a transport failure, reaches the handler that awaits it
Settles ==
    \/ \E c \in inflight, o \in PlanOutcomes(nextRun) : PlanSettle(c, o)
    \/ \E c \in inflight, o \in ExecuteOutcomes : ExecuteSettle(c, o)

\* the session as the page drives it, every request being answered in the end
SpecFair == Init /\ [][Next]_vars /\ WF_vars(Settles)

\* the session with the handlers called directly, one call at a time: any
\* candidate may be passed, whatever the page shows
NextDirect ==
    \/ \E q \in Questions : SetQuestion(q)
    \/ \E d \in Deployments : SetDeployment(d)
    \/ \E k \in Connectors : SetConnector(k)
    \/ ~isLoading /\ HandlePlan /\ netCalls' <= MaxCalls
    \/ \E cand \in AllCandidates :
            ~isLoading /\ HandleExecute(cand) /\ netCalls' <= MaxCalls
    \/ \E c \in inflight, o \in PlanOutcomes(nextRun) : PlanSettle(c, o)
    \/ \E c \in inflight, o \in ExecuteOutcomes : ExecuteSettle(c, o)

SpecDirect == Init /\ [][NextDirect]_vars

\* the session with the handlers invoked while other calls are in flight
NextBypass ==
    \/ \E q \in Questions : SetQuestion(q)
    \/ \E d \in Deployments : SetDeployment(d)
    \/ \E k \in Connectors : SetConnector(k)
    \/ HandlePlan /\ netCalls' <= MaxCalls
    \/ \E cand \in AllCandidates : HandleExecute(cand) /\ netCalls' <= MaxCalls
    \/ \E c \in inflight, o \in PlanOutcomes(nextRun) : PlanSettle(c, o)
    \/ \E c \in inflight, o \in ExecuteOutcomes : ExecuteSettle(c, o)

SpecBypass == Init /\ [][NextBypass]_vars

\* run ids a log view is opened for
LogRunIds == {"r1", "r2"}

\* the log view
NextLogs ==
    \/ \E id \in LogRunIds : MountLogs(id) /\ Len(sources') <= MaxOpens
    \/ \E id \in LogRunIds : NavigateLogs(id) /\ Len(sources') <= MaxOpens
    \/ \E i \in 1..Len(sources) : SourceOpens(i)
    \/ \E i \in 1..Len(sources) : OnMessage(i) /\ delivered' <= MaxEvents
    \/ \E i \in 1..Len(sources) : OnError(i)
    \/ UnmountLogs

SpecLogs == Init /\ [][NextLogs]_vars

\* the log view opened once, on one channel, long enough to fill the buffer
NextBuffer ==
    \/ \E id \in LogRunIds : MountLogs(id) /\ sources = <<>>
    \/ \E i \in 1..Len(sources) : SourceOpens(i)
    \/ \E i \in 1..Len(sources) : OnMessage(i) /\ delivered' <= MaxBufferEvents
    \/ \E i \in 1..Len(sources) : OnError(i)
    \/ UnmountLogs

SpecBuffer == Init /\ [][NextBuffer]_vars

-----------------------------------------------------------------------------
(* Properties *)

IsPrefix(s, t) == Len(s) <= Len(t) /\ SubSeq(t, 1, Len(s)) = s

\* the calls that have settled with a failure, and with a success
FailedCalls(op) ==
    {i \in 1..Len(settled) : settled[i].op = op /\ ~settled[i].ok}
OkCalls(op) ==
    {i \in 1..Len(settled) : settled[i].op = op /\ settled[i].ok}

\* C1: the line buffer never holds more than 200 lines, and once more than
\* 200 line events have been delivered on the channel of the mounted view it
\* holds exactly the 200 most recent ones, in arrival order.
LogBufferBound ==
    /\ Len(lines) <= LineLimit
    /\ \A i \in 1..Len(sources) :
            (logMounted /\ effectSource = i /\ sources[i].sent > LineLimit) =>
                /\ Len(lines) = LineLimit
                /\ \A k \in 1..Len(lines) :
                        lines[k] = [run |-> sources[i].run,
                                    n |-> sources[i].sent - LineLimit + k]

\* C2: while a plan request is in flight the candidates, the clarifications
\* and the result are empty, and when a plan issued from a session that held
\* a run succeeds, runId, candidates and clarifications are those of the
\* response and there is no result.
NoStaleDuringPlan ==
    \A c \in inflight :
        c.op = "plan" =>
            candidates = <<>> /\ clarifications = <<>> /\ result = NoResult

PlanClearsStaleState ==
    [][/\ NoStaleDuringPlan'
       /\ \A c \in inflight, o \in PlanOutcomes(nextRun) :
            (c.pre.runId # Null /\ o.kind = "ok" /\ PlanSettle(c, o)) =>
                /\ runId' = o.data.run_id
                /\ candidates' = CandidatesOf(o.data)
                /\ clarifications' = ClarificationsOf(o.data)
                /\ result' = NoResult]_vars

\* a plan has succeeded after an execution of the previous run had produced
\* a result
PlanClearsWitness ==
    /\ Len(settled) = 3
    /\ settled[1].op = "plan" /\ settled[1].ok
    /\ settled[2].op = "execute" /\ settled[2].ok
    /\ settled[3].op = "plan" /\ settled[3].ok
    /\ runId = RunName[2]
    /\ Len(candidates) = 1
    /\ result = NoResult

\* C3: handleExecute entered while runId is unset sets the error to the
\* validation message, issues no request, does not touch isLoading and
\* leaves every other field of the session as it was.
ExecuteRequiresRun ==
    [][\A cand \in AllCandidates :
        (runId = Null /\ HandleExecute(cand)) =>
            /\ error' = ExecuteValidationMessage
            /\ netCalls' = netCalls
            /\ inflight' = inflight
            /\ isLoading' = isLoading
            /\ UNCHANGED <<deployment, connector, question, messages, runId,
                           candidates, clarifications, result>>]_vars

ExecuteRequiresRunWitness ==
    /\ runId = Null
    /\ error = ExecuteValidationMessage
    /\ netCalls = 0

\* C4: a plan that fails leaves runId as it was when handlePlan was entered;
\* an execute that fails leaves runId, candidates, clarifications and the
\* transcript as they were when handleExecute was entered.
FailurePreservesRun ==
    [][\A c \in inflight :
        /\ \A o \in PlanOutcomes(nextRun) :
                (o.kind # "ok" /\ PlanSettle(c, o)) => runId' = c.pre.runId
        /\ \A o \in ExecuteOutcomes :
                (o.kind # "ok" /\ ExecuteSettle(c, o)) =>
                    /\ runId' = c.pre.runId
                    /\ candidates' = c.pre.candidates
                    /\ clarifications' = c.pre.clarifications
                    /\ messages' = c.pre.messages]_vars

\* an execute has failed and then a plan has failed, in a session with a run
FailurePreservesWitness ==
    /\ Len(settled) = 3
    /\ settled[2].op = "execute" /\ ~settled[2].ok
    /\ settled[3].op = "plan" /\ ~settled[3].ok
    /\ runId = RunName[1]
    /\ messages # <<>>

\* C5: handlePlan entered with an empty question or an empty connector issues
\* no request, sets the error to a non-empty message and leaves runId,
\* candidates, clarifications, result, messages and isLoading as they were.
SubmitValidation ==
    [][((question = "" \/ connector = "") /\ HandlePlan) =>
            /\ error' # Null /\ error' # ""
            /\ netCalls' = netCalls
            /\ inflight' = inflight
            /\ UNCHANGED <<runId, candidates, clarifications, result,
                           messages, isLoading>>]_vars

\* the validation error of handlePlan in a session that holds a result
SubmitValidationWitness ==
    /\ error = PlanValidationMessage
    /\ result # NoResult
    /\ runId # Null
    /\ candidates # <<>>

FailureDetailAsStated ==
    [][\A c \in inflight, r \in ErrorResponses :
        (PlanSettle(c, HttpError(r)) \/ ExecuteSettle(c, HttpError(r))) =>
            error' = IF r.body.kind = "object" /\ r.body.hasDetail
                     THEN r.body.detail
                     ELSE r.statusText]_vars

\* C7 as amended: after a non-2xx response the error is the detail of the
\* body when the body is a JSON object carrying one, the status text when the
\* body is not JSON, the handler's fixed text ("Planning failed", "Execution
\* failed") when the body is a JSON object without a detail, and the message
\* of the TypeError when the body is the JSON value null.
ExpectedFailureText(r, fixed) ==
    CASE r.body.kind = "unparsable" -> r.statusText
      [] r.body.kind = "null" -> NullDerefMessage
      [] r.body.kind = "object" /\ r.body.hasDetail -> r.body.detail
      [] r.body.kind = "object" /\ ~r.body.hasDetail -> fixed

FailureDetail ==
    [][\A c \in inflight, r \in ErrorResponses :
        /\ PlanSettle(c, HttpError(r)) =>
                error' = ExpectedFailureText(r, "Planning failed")
        /\ ExecuteSettle(c, HttpError(r)) =>
                error' = ExpectedFailureText(r, "Execution failed")]_vars

\* a plan was refused with a body without detail, after an execute had been
\* refused too
FailureDetailWitness ==
    /\ error = "Planning failed"
    /\ FailedCalls("execute") # {}
    /\ FailedCalls("plan") # {}

\* C8: every step leaves the transcript a prefix of the new one; a plan that
\* succeeds appends the user message of the question it sent and then the
\* assistant message of the candidate count; an execute that succeeds appends
\* one assistant message; no other step changes the transcript.
TranscriptAppendOnly ==
    [][/\ IsPrefix(messages, messages')
       /\ \A c \in inflight :
            /\ \A o \in PlanOutcomes(nextRun) :
                    PlanSettle(c, o) =>
                        IF o.kind = "ok"
                        THEN /\ Len(messages') = Len(messages) + 2
                             /\ messages'[Len(messages) + 1] =
                                    [role |-> "user",
                                     content |-> <<c.body.question>>]
                             /\ messages'[Len(messages) + 2] =
                                    ProposedMessage(Len(candidates'))
                        ELSE messages' = messages
            /\ \A o \in ExecuteOutcomes :
                    ExecuteSettle(c, o) =>
                        IF o.kind = "ok"
                        THEN /\ Len(messages') = Len(messages) + 1
                             /\ messages'[Len(messages')].role = "assistant"
                        ELSE messages' = messages
       /\ (HandlePlan \/ \E cand \in AllCandidates : HandleExecute(cand)) =>
                messages' = messages
       /\ messages' # messages => Len(settled') = Len(settled) + 1
                                  /\ settled'[Len(settled')].ok]_vars

\* a plan and an execute have succeeded after a failed call, and the user
\* message is the question that was sent
TranscriptWitness ==
    /\ Len(messages) = 3
    /\ messages[1] = UserMessage("q1")
    /\ messages[3].role = "assistant"
    /\ \E i \in 1..Len(settled) : ~settled[i].ok
    /\ error = PlanValidationMessage

\* C9: with the controls disabled while isLoading, at most one request is
\* outstanding, isLoading is true exactly when one is, and the calls settle
\* in the order in which they were issued.
InIssueOrder ==
    /\ \A i, j \in 1..Len(settled) : i < j => settled[i].id < settled[j].id
    /\ \A c \in inflight : \A i \in 1..Len(settled) : settled[i].id < c.id

OneOutstandingCall ==
    /\ Cardinality(inflight) <= 1
    /\ isLoading <=> inflight # {}
    /\ InIssueOrder

OneOutstandingWitness ==
    /\ Cardinality(inflight) = 1
    /\ Len(settled) = 2
    /\ isLoading

\* C10: with the handlers invoked while other calls are in flight, isLoading
\* is true while any call is outstanding, and once none is outstanding the
\* candidates, the clarifications and the result belong to the run of runId.
PendingWhileOutstanding == inflight # {} => isLoading

RunConsistent ==
    inflight = {} =>
        /\ result # NoResult => resultReq.run_id = runId
        /\ (candidates # <<>> \/ clarifications # <<>>) => planRun = runId

ConcurrentSafe == PendingWhileOutstanding /\ RunConsistent

\* C11 as stated: after an execute that fails the session holds a run, the
\* candidates it held when the call was made, is not loading, has an error
\* and holds no result.
ExecuteFailureToPlanReady ==
    [][\A c \in inflight, o \in ExecuteOutcomes :
        (o.kind # "ok" /\ ExecuteSettle(c, o)) =>
            /\ runId' # Null
            /\ candidates' = c.pre.candidates
            /\ ~isLoading'
            /\ error' # Null
            /\ result' = NoResult]_vars

\* C11 as amended: after an execute that fails the session holds a run, the
\* candidates it held when the call was made, is not loading and has the
\* failure text as its error; the result is the one held when the call was
\* made: none if there was none, the previous one otherwise.
ExecuteFailureRestores ==
    [][\A c \in inflight, o \in ExecuteOutcomes :
        (o.kind # "ok" /\ ExecuteSettle(c, o)) =>
            /\ runId' # Null
            /\ runId' = c.pre.runId
            /\ candidates' = c.pre.candidates
            /\ ~isLoading'
            /\ error' # Null
            /\ error' = CatchText(Thrown(o, "Execution failed"))
            /\ result' = c.pre.result]_vars

\* an execute has failed in a session that held the result of an earlier one
ExecuteFailureWitness ==
    /\ Len(settled) = 3
    /\ settled[2].op = "execute" /\ settled[2].ok
    /\ settled[3].op = "execute" /\ ~settled[3].ok
    /\ result # NoResult
    /\ error = "Execution failed"
    /\ ~isLoading

\* the sources that are not closed
LiveSources == {i \in 1..Len(sources) : sources[i].readyState # "closed"}

\* C12: a channel-level error closes the source, keeps the buffered lines and
\* changes nothing of the session; a closed source stays closed and delivers
\* no further line, a line is appended only by a line event of an open
\* source, and a source is created only when the view mounts or its route
\* parameter changes.
StreamFailureStops ==
    [][/\ \A i \in 1..Len(sources) :
            OnError(i) =>
                /\ sources'[i].readyState = "closed"
                /\ Len(sources') = Len(sources)
                /\ lines' = lines
                /\ UNCHANGED chatVars
       /\ \A i \in 1..Len(sources) :
            sources[i].readyState = "closed" =>
                /\ Len(sources') >= i
                /\ sources'[i].readyState = "closed"
                /\ sources'[i].sent = sources[i].sent
       /\ (lines' # lines /\ lines' # <<>>) =>
            \E i \in 1..Len(sources) :
                /\ sources[i].readyState = "open"
                /\ lines'[Len(lines')] =
                        [run |-> sources[i].run, n |-> sources[i].sent + 1]
       /\ Len(sources') # Len(sources) =>
            /\ logMounted'
            /\ ~logMounted \/ routeId' # routeId]_vars

\* the source of the mounted view was closed by an error after it had
\* delivered lines, which are still in the buffer
StreamFailureWitness ==
    /\ logMounted
    /\ effectSource # 0
    /\ sources[effectSource].errored
    /\ sources[effectSource].readyState = "closed"
    /\ sources[effectSource].sent = 2
    /\ Len(lines) = 2

\* C13: at most one source is not closed, it is the one of the live effect
\* and it is for the route parameter of the mounted view; when the view is
\* not mounted every source is closed.
ChannelExclusive ==
    /\ Cardinality(LiveSources) <= 1
    /\ \A i \in LiveSources :
            logMounted /\ effectSource = i /\ sources[i].run = routeId
    /\ ~logMounted => LiveSources = {}

\* the view has moved from one run to another: the first source is closed
\* and the second is open
ChannelExclusiveWitness ==
    /\ logMounted
    /\ Len(sources) = 2
    /\ sources[1].readyState = "closed" /\ ~sources[1].errored
    /\ sources[2].readyState = "open"
    /\ sources[1].run # sources[2].run

\* C14: the cleanup of an effect whose source an error has already closed
\* leaves that source, and every other, as it was; on a change of the route
\* parameter it leaves the line buffer as it was too.
ClosedByError ==
    /\ logMounted
    /\ effectSource # 0
    /\ sources[effectSource].errored
    /\ sources[effectSource].readyState = "closed"

IdempotentClose ==
    [][/\ (ClosedByError /\ UnmountLogs) => sources' = sources
       /\ \A id \in LogRunIds :
            (ClosedByError /\ NavigateLogs(id)) =>
                /\ SubSeq(sources', 1, Len(sources)) = sources
                /\ lines' = lines]_vars

\* the view was unmounted after an error had closed its source
IdempotentCloseWitness ==
    /\ ~logMounted
    /\ Len(sources) = 1
    /\ sources[1].errored
    /\ sources[1].readyState = "closed"
    /\ sources[1].sent = 1

\* the step issues a request: handlePlan or handleExecute has passed its guard
AttemptStarts == netCalls' = netCalls + 1

\* the step is the continuation of a call, and the call succeeded or failed
SettlesOk == Len(settled') = Len(settled) + 1 /\ settled'[Len(settled')].ok
SettlesFailed == Len(settled') = Len(settled) + 1 /\ ~settled'[Len(settled')].ok

\* C15: the error goes from set to unset only in a step that starts an
\* attempt, and every step that starts an attempt leaves it unset; a step
\* that changes the error starts an attempt, fails a validation or is the
\* failure of a call; a call that succeeds and an edit of an input leave the
\* error as it was.
ErrorClearedAtStart ==
    [][/\ (error # Null /\ error' = Null) => AttemptStarts
       /\ AttemptStarts => error' = Null
       /\ error' # error =>
            \/ AttemptStarts
            \/ /\ error' \in {PlanValidationMessage, ExecuteValidationMessage}
               /\ netCalls' = netCalls /\ inflight' = inflight
            \/ SettlesFailed /\ error' # Null
       /\ SettlesOk => error' = error
       /\ ( \/ \E q \in Questions : SetQuestion(q)
            \/ \E d \in Deployments : SetDeployment(d)
            \/ \E k \in Connectors : SetConnector(k) ) => error' = error]_vars

\* an attempt has started, and cleared the error a failed call had left
ErrorClearedWitness ==
    /\ Len(settled) >= 1
    /\ ~settled[Len(settled)].ok
    /\ inflight # {}
    /\ error = Null
    /\ isLoading

\* no request is outstanding
Quiescent == inflight = {}

\* C16: every request being answered in the end, a session that is loading
\* stops loading, whether the call succeeds or fails; and in every state with
\* no request outstanding, whatever error it shows, the submit control is
\* enabled, handlePlan can be entered, and with a question and a connector it
\* issues a request.
ErrorsNotTerminal ==
    /\ isLoading ~> ~isLoading
    /\ [](Quiescent =>
            /\ SubmitEnabled
            /\ ENABLED HandlePlan
            /\ (question # "" /\ connector # "") =>
                    ENABLED (HandlePlan /\ netCalls' = netCalls + 1))

\* a plan and an execute have failed, a validation has failed after them, and
\* the session is at rest
ErrorsNotTerminalWitness ==
    /\ Quiescent
    /\ ~isLoading
    /\ FailedCalls("plan") # {}
    /\ FailedCalls("execute") # {}
    /\ error = PlanValidationMessage

\* C17: every line in the buffer was delivered for the run whose id is the
\* route parameter of the mounted view.
BufferOfViewedRun ==
    \A k \in 1..Len(lines) : logMounted /\ lines[k].run = routeId

\* the candidate list holds a candidate whose SQL is the given text
ListsSql(sql) == \E i \in 1..Len(candidates) : candidates[i].sql = sql

\* C18: with the controls as rendered, a session that holds candidates or a
\* result holds a run; a run, once held, is never dropped; and a result held
\* was returned to an execute request that carried the run the session holds
\* and the SQL of one of the candidates the session holds.
ProvenanceNow ==
    /\ (candidates # <<>> \/ result # NoResult) => runId # Null
    /\ result # NoResult =>
            /\ resultReq # NoResult
            /\ resultReq.run_id = runId
            /\ ListsSql(resultReq.approved_sql)

ResultProvenance ==
    [][/\ ProvenanceNow'
       /\ runId # Null => runId' # Null
       /\ \A c \in inflight, o \in ExecuteOutcomes :
            (o.kind = "ok" /\ ExecuteSettle(c, o)) =>
                /\ result' = o.data
                /\ c.body.run_id = runId'
                /\ ListsSql(c.body.approved_sql)']_vars

\* the second run of the session has been executed and its result is held
ResultProvenanceWitness ==
    /\ result # NoResult
    /\ runId = RunName[2]
    /\ resultReq.run_id = RunName[2]
    /\ Len(candidates) >= 1

\* C19: every execute request carries the connector that the plan request
\* which produced its run carried.
ConnectorConsistent ==
    \A c \in inflight :
        c.op = "execute" =>
            c.body.run_id = runId /\ c.body.connector = runConnector

====
